---- MODULE Spec2Model ----
(***************************************************************************)
(* Model of torsion/conf/conf.py: gen_starting_confs, get_best_conf,       *)
(* gen_torsional_confs and split_confs.                                    *)
(*                                                                         *)
(* Strings are sequences of one-character strings, so that str.split,      *)
(* str.join, int() and the {:02d} / {:.0f} formats are computed.  An       *)
(* angle is a reduced fraction <<p, q>> of a full turn (2*pi*p/q).  The    *)
(* OpenEye toolkit calls (OEOmega, OETorsionScan, OESetTorsion, OEMol      *)
(* copies, SD data) are modelled by their effect on the fields the code    *)
(* reads and writes; the sampler's and the scanner's results are inputs    *)
(* chosen by the actions.                                                  *)
(***************************************************************************)
EXTENDS Integers, Sequences, FiniteSets, TLC

\* ------------------------------------------------------------- bounds
NumAtoms == 4
MaxNumConformers == 2
MaxNumPoints == 3
ScanExtra == 2
MaxInputConfs == 2
MaxParentLen == 2
NumGens == 2

\* ------------------------------------------------------ string helpers
DigitChars == <<"0", "1", "2", "3", "4", "5", "6", "7", "8", "9">>

RECURSIVE Dec(_)
\* str(n) / "{:.0f}".format(n) of a non-negative integer
Dec(n) ==
    IF n < 10 THEN <<DigitChars[n + 1]>>
    ELSE Dec(n \div 10) \o <<DigitChars[(n % 10) + 1]>>

\* "{:02d}".format(n): zero-padded to a minimum width of two
Fmt02(n) == IF n < 10 THEN <<"0">> \o Dec(n) ELSE Dec(n)

DigitVal(c) == CHOOSE d \in 0..9 : DigitChars[d + 1] = c

RECURSIVE ParseInt(_)
\* int(s) of a string of decimal digits
ParseInt(s) ==
    IF Len(s) = 1 THEN DigitVal(s[1])
    ELSE 10 * ParseInt(SubSeq(s, 1, Len(s) - 1)) + DigitVal(s[Len(s)])

RECURSIVE SplitAcc(_, _, _)
SplitAcc(s, cur, acc) ==
    IF s = <<>> THEN (IF cur = <<>> THEN acc ELSE Append(acc, cur))
    ELSE IF Head(s) = " "
         THEN SplitAcc(Tail(s), <<>>, IF cur = <<>> THEN acc ELSE Append(acc, cur))
         ELSE SplitAcc(Tail(s), Append(cur, Head(s)), acc)

\* str.split(): the maximal runs of non-whitespace characters
Split(s) == SplitAcc(s, <<>>, <<>>)

RECURSIVE Join(_, _)
\* sep.join(parts)
Join(sep, parts) ==
    IF parts = <<>> THEN <<>>
    ELSE IF Len(parts) = 1 THEN parts[1]
    ELSE parts[1] \o sep \o Join(sep, Tail(parts))

\* ------------------------------------------------------------- angles
RECURSIVE GCD(_, _)
GCD(a, b) == IF b = 0 THEN a ELSE GCD(b, a % b)

\* 2 * i * Pi / num_points, as a reduced fraction of a turn
GridAngle(i, n) == LET g == GCD(i, n) IN <<i \div g, n \div g>>

\* angle_list = [2 * i * oechem.Pi / num_points for i in range(num_points)]
AngleList(n) == [k \in 1..n |-> GridAngle(k - 1, n)]

\* round(): to the nearest integer, ties to the even one
RoundHalfEven(num, den) ==
    LET q == num \div den
        r == num % den
    IN  IF 2 * r < den THEN q
        ELSE IF 2 * r > den THEN q + 1
        ELSE IF q % 2 = 0 THEN q ELSE q + 1

\* angle_deg = int(round(angle * oechem.Rad2Deg))
AngleDeg(angle) == RoundHalfEven(360 * angle[1], angle[2])

\* ------------------------------------------------- molecules and tags
\* value of an SD tag that is not set
NoTag == <<"<unset>">>

TAGNAME == "TORSION_ATOMS_FRAGMENT"
TagNames == {"TORSION_ATOMS_FRAGMENT", "TORSION_ATOMS_ParentMol", "TORSION_ATOMPROP"}

\* has_sd_data(mol, tag)
has_sd_data(m, tag) == m.tags[tag] # NoTag

\* get_sd_data(mol, tag) of a tag that is set
get_sd_data(m, tag) == m.tags[tag]

\* oechem.OEClearSDData(mol)
ClearedTags == [t \in TagNames |-> NoTag]

\* sentinels of the code: an unfilled new_didx slot, an atom without "dihidx" data
Unfilled == -1
NoData == -1
\* a conformer without the numeric TORSION_ANGLE data
NoAngle == -1

\* oechem.OESetSDData(conf, "CONFORMER_LABEL", label); conf.SetTitle(title)
SetLabelAndTitle(conf, label, title) == [conf EXCEPT !.label = label, !.title = title]

\* no molecule (the call raised)
NoMol == [title |-> <<>>, tags |-> ClearedTags, atoms |-> <<>>, confs |-> <<>>]

\* ------------------------------------------------- gen_starting_confs
\* dihedralAtomIndices = [int(x) - 1 for x in get_sd_data(mol, TAGNAME).split()]
DihedralAtomIndices(m) ==
    LET toks == Split(get_sd_data(m, TAGNAME))
    IN  [k \in 1..Len(toks) |-> ParseInt(toks[k]) - 1]

\* the four consecutive "if atom.GetIdx() == dihedralAtomIndices[k]" tests on one atom
MarkerFor(idx, didx, old) ==
    LET m0 == IF idx = didx[1] THEN 0 ELSE old
        m1 == IF idx = didx[2] THEN 1 ELSE m0
        m2 == IF idx = didx[3] THEN 2 ELSE m1
    IN  IF idx = didx[4] THEN 3 ELSE m2

\* "Tag torsion atoms with their dihedral index" on the working copy
TagTorsionAtoms(m, didx) ==
    [m EXCEPT !.atoms = [j \in 1..Len(m.atoms) |->
        [m.atoms[j] EXCEPT !.dihidx = MarkerFor(j - 1, didx, m.atoms[j].dihidx)]]]

\* a renumbering of the atoms: old index -> new index
Renumberings == {p \in [0..(NumAtoms - 1) -> 0..(NumAtoms - 1)] :
                    \A a, b \in 0..(NumAtoms - 1) : a # b => p[a] # p[b]}

\* dihedral value of a conformer produced by the sampler or the scanner
EngineDih == <<1, 11>>

\* conformers a toolkit engine puts into a molecule: indices 0..count-1, no tags
EngineConfs(count, title) ==
    [c \in 1..count |-> [idx |-> c - 1, dih |-> EngineDih, title |-> title,
                         label |-> NoTag, angleStr |-> NoTag, angleNum |-> NoAngle]]

\* conf_generator(mc_mol, inDih) returning True: atoms renumbered by perm (their
\* generic data travels with them), the conformers replaced by count new ones
OmegaOutput(m, perm, count) ==
    [m EXCEPT !.atoms = [j \in 1..Len(m.atoms) |->
                            m.atoms[(CHOOSE a \in 0..(Len(m.atoms) - 1) : perm[a] = j - 1) + 1]],
              !.confs = EngineConfs(count, m.title)]

\* "Reassign": new_didx[atom.GetData("dihidx")] = atom.GetIdx()
NewDidx(m) ==
    [k \in 1..4 |->
        IF \E j \in 1..Len(m.atoms) : m.atoms[j].dihidx = k - 1
        THEN (CHOOSE j \in 1..Len(m.atoms) : m.atoms[j].dihidx = k - 1) - 1
        ELSE Unfilled]

\* " ".join(str(x + 1) for x in new_didx)
FragmentTagValue(nd) == Join(<<" ">>, [k \in 1..4 |-> Dec(nd[k] + 1)])

\* f"cs1:0:1;1%{a}:1%{b}:1%{c}:1%{d}"
AtomPropValue(nd) ==
    <<"c", "s", "1", ":", "0", ":", "1", ";", "1", "%">> \o Dec(nd[1] + 1)
        \o <<":", "1", "%">> \o Dec(nd[2] + 1)
        \o <<":", "1", "%">> \o Dec(nd[3] + 1)
        \o <<":", "1", "%">> \o Dec(nd[4] + 1)

\* lines 113-129: clear the SD data and write the three molecule-level tags
ResetMetadata(mc, m) ==
    LET nd == NewDidx(mc)
    IN  [mc EXCEPT !.tags =
            [ClearedTags EXCEPT ![TAGNAME] = FragmentTagValue(nd),
                                !["TORSION_ATOMS_ParentMol"] =
                                    get_sd_data(m, "TORSION_ATOMS_ParentMol"),
                                !["TORSION_ATOMPROP"] = AtomPropValue(nd)]]

\* the label built from the parent tag as stored, without .split() and "_".join
StartingConfLabelRawTag(m, conf_no) ==
    m.title \o <<"_">> \o get_sd_data(m, "TORSION_ATOMS_ParentMol")
        \o <<"_">> \o Fmt02(conf_no)

\* mol.GetTitle() + "_" + "_".join(get_sd_data(mol, ParentMol).split()) + "_{:02d}"
StartingConfLabel(m, conf_no) ==
    m.title \o <<"_">> \o Join(<<"_">>, Split(get_sd_data(m, "TORSION_ATOMS_ParentMol")))
        \o <<"_">> \o Fmt02(conf_no)

\* lines 131-139: label every conformer of mc_mol by its enumeration position
LabelStartingConfs(mc, m) ==
    [mc EXCEPT !.confs = [c \in 1..Len(mc.confs) |->
        SetLabelAndTitle(mc.confs[c], StartingConfLabel(m, c - 1),
                         StartingConfLabel(m, c - 1))]]

\* gen_starting_confs(mol, torsion_library, num_conformers=nc); omega is what the
\* sampler does when it is called: [ok, perm, count]
gen_starting_confs(m, nc, omega) ==
    IF ~has_sd_data(m, TAGNAME)
    THEN [outcome |-> "ValueError:missing-tag", result |-> NoMol, sampled |-> FALSE]
    ELSE LET didx == DihedralAtomIndices(m) IN
    IF Len(didx) < 4
    THEN [outcome |-> "IndexError", result |-> NoMol, sampled |-> FALSE]
    ELSE LET mc == TagTorsionAtoms(m, didx) IN
    IF nc > 1
    THEN IF ~omega.ok
         THEN [outcome |-> "ValueError:no-conformers", result |-> NoMol, sampled |-> TRUE]
         ELSE [outcome |-> "returned",
               result |-> LabelStartingConfs(
                              ResetMetadata(OmegaOutput(mc, omega.perm, omega.count), m), m),
               sampled |-> TRUE]
    ELSE [outcome |-> "returned", result |-> LabelStartingConfs(mc, m), sampled |-> FALSE]

\* ------------------------------------------------------ get_best_conf
AngleWord == <<":", " ", "A", "n", "g", "l", "e", " ">>

\* oeszybki.OETorsionScan(tor_mol, mol, tor, opts) then oechem.OECopySDData(tor_mol, mol):
\* the scanner fills the empty tor_mol with count conformers of mol's graph
TorsionScanOutput(m, count) ==
    [title |-> m.title, tags |-> m.tags, atoms |-> m.atoms,
     confs |-> EngineConfs(count, m.title)]

\* "if 0 and 360 sampled because of rounding": the loop leaves conf bound to the last
\* conformer of the enumeration, which is deleted
DropWraparound(tor, num_points) ==
    IF Len(tor.confs) > num_points
    THEN [tor EXCEPT !.confs = SubSeq(tor.confs, 1, Len(tor.confs) - 1)]
    ELSE tor

\* body of the zip loop of get_best_conf for one (angle, conf) pair
SnapAndLabel(conf, angle, title) ==
    LET angle_deg == AngleDeg(angle)
        conf_name == title \o <<"_">> \o Fmt02(conf.idx)
    IN  [conf EXCEPT !.dih = angle,
                     !.label = conf_name,
                     !.angleStr = Dec(angle_deg),
                     !.angleNum = angle_deg,
                     !.title = conf_name \o AngleWord \o Dec(angle_deg)]

\* get_best_conf(mol, dih, num_points); count is the number of conformers the
\* scanner produces
get_best_conf(m, num_points, count) ==
    LET angle_list == AngleList(num_points)
        tor == DropWraparound(TorsionScanOutput(m, count), num_points)
    IN  [tor EXCEPT !.confs = [c \in 1..Len(tor.confs) |->
            IF c <= Len(angle_list)
            THEN SnapAndLabel(tor.confs[c], angle_list[c], m.title)
            ELSE tor.confs[c]]]

\* ------------------------------------------------ gen_torsional_confs
\* the new conformer made from input conformer conf at grid position angle_idx
TorsionalConf(conf, angle_idx, angle, newIdx) ==
    LET angle_deg == AngleDeg(angle)
        conf_name == conf.label
        new_conf_name == conf_name \o <<"_">> \o Fmt02(angle_idx)
    IN  [conf EXCEPT !.idx = newIdx,
                     !.dih = angle,
                     !.label = new_conf_name,
                     !.angleStr = Dec(angle_deg),
                     !.angleNum = angle_deg,
                     !.title = conf_name \o AngleWord \o Dec(angle_deg)]

\* torsion_conformers = oechem.OEMol(mol), emptied unless include_input
ExpandStart(m, include_input) ==
    IF include_input THEN m ELSE [m EXCEPT !.confs = <<>>]

\* gen_torsional_confs(mol, dih, num_points, include_input): the returned molecule
ExpandResult(m, num_points, include_input) ==
    LET angle_list == AngleList(num_points)
        start == ExpandStart(m, include_input)
        K == Len(m.confs)
        new == [q \in 1..(K * num_points) |->
                   LET c == ((q - 1) \div num_points) + 1
                       j == (q - 1) % num_points
                   IN  TorsionalConf(m.confs[c], j, angle_list[j + 1],
                                     Len(start.confs) + q - 1)]
    IN  [start EXCEPT !.confs = start.confs \o new]

\* oechem.OESetTorsion(conf, ...) acts on the conformers of mol itself: what the
\* argument molecule is when gen_torsional_confs returns
ExpandInputAfter(m, num_points) ==
    IF num_points = 0 THEN m
    ELSE [m EXCEPT !.confs = [c \in 1..Len(m.confs) |->
             [m.confs[c] EXCEPT !.dih = AngleList(num_points)[num_points]]]]

\* -------------------------------------------------------- split_confs
\* the yield with oechem.OEMol(mol) in place of oechem.OEMol(conf)
SplitYieldWholeMol(m, pos) ==
    [title |-> m.title, tags |-> m.tags, atoms |-> m.atoms, confs |-> m.confs]

\* new_mol = oechem.OEMol(conf); oechem.OECopySDData(new_mol, mol)
SplitYield(m, pos) ==
    [title |-> m.confs[pos].title, tags |-> m.tags, atoms |-> m.atoms,
     confs |-> <<[m.confs[pos] EXCEPT !.idx = 0]>>]

\* a generator object that split_confs(mol) has not been called for
NoGen == [state |-> "none", pos |-> 0, yielded |-> <<>>]

\* ---------------------------------------------------------- the inputs
TagLens == {3, 4, 5}
OrigDihedrals == {<<0, 1>>, <<1, 7>>}
ParentChars == {"a", " "}

\* a TORSION_ATOMS_FRAGMENT value: 1-based numbers separated by single blanks
FragmentTagOf(nums) == Join(<<" ">>, [k \in 1..Len(nums) |-> Dec(nums[k])])

FragmentTags ==
    {NoTag} \cup {FragmentTagOf(nums) :
                    nums \in UNION {[1..l -> 1..(NumAtoms + 1)] : l \in TagLens}}

ParentTags == UNION {[1..l -> ParentChars] : l \in 1..MaxParentLen}

InputConf(c, dih) ==
    [idx |-> c, dih |-> dih, title |-> <<"t">> \o Dec(c), label |-> <<"L">> \o Dec(c),
     angleStr |-> NoTag, angleNum |-> NoAngle]

InputMol(frag, parent, dihs) ==
    [title |-> <<"T">>,
     tags |-> [ClearedTags EXCEPT ![TAGNAME] = frag,
                                  !["TORSION_ATOMS_ParentMol"] = parent],
     atoms |-> [j \in 1..NumAtoms |-> [orig |-> j - 1, dihidx |-> NoData]],
     confs |-> [c \in 1..Len(dihs) |-> InputConf(c - 1, dihs[c])]]

\* the molecules handed to the four functions: any fragment tag on a one-conformer
\* molecule, and a well-tagged molecule with any parent tag and conformers
InputMols ==
    {InputMol(frag, <<"a", " ", "b">>, <<<<1, 7>>>>) : frag \in FragmentTags}
    \cup {InputMol(FragmentTagOf(<<1, 2, 3, 4>>), parent, dihs) :
            parent \in ParentTags,
            dihs \in UNION {[1..k -> OrigDihedrals] : k \in 1..MaxInputConfs}}

\* --------------------------------------------------- the state machine
VARIABLES mol, mol0, call, outcome, result, sampled, gens

vars == <<mol, mol0, call, outcome, result, sampled, gens>>

NoCall == [op |-> "none", n |-> 0, include |-> FALSE, count |-> 0]

Init ==
    /\ mol \in InputMols
    /\ mol0 = mol
    /\ call = NoCall
    /\ outcome = "none"
    /\ result = NoMol
    /\ sampled = FALSE
    /\ gens = [g \in 1..NumGens |-> NoGen]

\* what the sampler may do when asked for at most nc conformers
OmegaChoices(nc) ==
    {[ok |-> FALSE, perm |-> [a \in 0..(NumAtoms - 1) |-> a], count |-> 0]}
    \cup {[ok |-> TRUE, perm |-> p, count |-> k] : p \in Renumberings, k \in 1..nc}

\* result = gen_starting_confs(mol, library, num_conformers=nc)
Generate ==
    /\ call.op = "none"
    /\ \E nc \in 0..MaxNumConformers : \E omega \in OmegaChoices(nc) :
         LET r == gen_starting_confs(mol, nc, omega) IN
         /\ call' = [NoCall EXCEPT !.op = "generate", !.n = nc]
         /\ outcome' = r.outcome
         /\ result' = r.result
         /\ sampled' = r.sampled
    /\ UNCHANGED <<mol, mol0, gens>>

\* result = get_best_conf(mol, dih, num_points=n)
Scan ==
    /\ call.op = "none"
    /\ \E n \in 1..MaxNumPoints : \E count \in 0..(n + ScanExtra) :
         /\ call' = [NoCall EXCEPT !.op = "scan", !.n = n, !.count = count]
         /\ result' = get_best_conf(mol, n, count)
    /\ outcome' = "returned"
    /\ UNCHANGED <<mol, mol0, sampled, gens>>

\* result = gen_torsional_confs(mol, dih, num_points=n, include_input=inc)
Expand ==
    /\ call.op = "none"
    /\ \E n \in 1..MaxNumPoints : \E inc \in BOOLEAN :
         /\ call' = [NoCall EXCEPT !.op = "expand", !.n = n, !.include = inc]
         /\ result' = ExpandResult(mol, n, inc)
         /\ mol' = ExpandInputAfter(mol, n)
    /\ outcome' = "returned"
    /\ UNCHANGED <<mol0, sampled, gens>>

\* gens[g] = split_confs(mol): a new generator, nothing of its body has run
SplitCall(g) ==
    /\ call.op \in {"none", "split"}
    /\ call' = [NoCall EXCEPT !.op = "split"]
    /\ gens' = [gens EXCEPT ![g] = [state |-> "created", pos |-> 0, yielded |-> <<>>]]
    /\ UNCHANGED <<mol, mol0, outcome, result, sampled>>

\* next(gens[g]): the loop over mol.GetConfs() runs to its next yield, or ends
SplitNext(g) ==
    /\ gens[g].state \in {"created", "running"}
    /\ IF gens[g].pos < Len(mol.confs)
       THEN gens' = [gens EXCEPT ![g] =
                [state |-> "running", pos |-> gens[g].pos + 1,
                 yielded |-> Append(gens[g].yielded, SplitYield(mol, gens[g].pos + 1))]]
       ELSE gens' = [gens EXCEPT ![g].state = "done"]
    /\ UNCHANGED <<mol, mol0, call, outcome, result, sampled>>

Next ==
    \/ Generate
    \/ Scan
    \/ Expand
    \/ \E g \in 1..NumGens : SplitCall(g)
    \/ \E g \in 1..NumGens : SplitNext(g)

Spec == Init /\ [][Next]_vars

\* The same operations on well-tagged molecules with every parent tag and conformer
\* set, and on a sample of the fragment tags
SampleFragmentTags ==
    {NoTag, FragmentTagOf(<<1, 2, 3>>), FragmentTagOf(<<2, 1, 4, 3>>),
     FragmentTagOf(<<1, 1, 2, 3>>), FragmentTagOf(<<1, 2, 3, NumAtoms + 1>>),
     FragmentTagOf(<<1, 2, 3, 4, 1>>)}

TaggedMols ==
    {InputMol(frag, <<"a", " ", "b">>, <<<<1, 7>>>>) : frag \in SampleFragmentTags}
    \cup {InputMol(FragmentTagOf(<<1, 2, 3, 4>>), parent, dihs) :
            parent \in ParentTags,
            dihs \in UNION {[1..k -> OrigDihedrals] : k \in 1..MaxInputConfs}}

InitTagged ==
    /\ mol \in TaggedMols
    /\ mol0 = mol
    /\ call = NoCall
    /\ outcome = "none"
    /\ result = NoMol
    /\ sampled = FALSE
    /\ gens = [g \in 1..NumGens |-> NoGen]

SpecTagged == InitTagged /\ [][Next]_vars

\* ============================================================ claims
Returned(op) == call.op = op /\ outcome = "returned"

\* d is the integer nearest to 360 * i / n
NearestDegree(d, i, n) ==
    /\ 2 * (d * n - 360 * i) <= n
    /\ 2 * (360 * i - d * n) <= n

\* conf is pinned to grid position i of n and carries the label lab
StampedAt(conf, i, n, lab) ==
    /\ conf.dih = GridAngle(i, n)
    /\ conf.angleNum # NoAngle
    /\ conf.angleStr # NoTag
    /\ ParseInt(conf.angleStr) = conf.angleNum
    /\ NearestDegree(conf.angleNum, i, n)
    /\ conf.label = lab

\* C1: get_best_conf returns exactly num_points conformers whatever number of
\* conformers the torsion scanner produced, each pinned to a grid angle and carrying
\* CONFORMER_LABEL and TORSION_ANGLE.
C1_ScanReturnsNumPoints ==
    Returned("scan") =>
        /\ Len(result.confs) = call.n
        /\ \A c \in 1..Len(result.confs) :
              /\ result.confs[c].label # NoTag
              /\ result.confs[c].angleStr # NoTag
              /\ result.confs[c].angleNum # NoAngle
              /\ \E i \in 0..(call.n - 1) : result.confs[c].dih = GridAngle(i, call.n)

\* C2: in the result of get_best_conf, for every i in 0..num_points-1 the i-th
\* conformer is set to grid angle i, its TORSION_ANGLE string and number are the
\* rounded degrees, its label is <title>_<2-digit i> and its title is
\* "<label>: Angle <deg>".
C2_ScanPairsGrid ==
    Returned("scan") =>
        \A i \in 0..(call.n - 1) :
            /\ i + 1 <= Len(result.confs)
            /\ StampedAt(result.confs[i + 1], i, call.n,
                         mol0.title \o <<"_">> \o Fmt02(i))
            /\ result.confs[i + 1].title =
                   result.confs[i + 1].label \o AngleWord \o Dec(result.confs[i + 1].angleNum)

\* C3: gen_torsional_confs returns K*N new conformers (after the K originals when
\* include_input), the one for input conformer c and grid index j pinned to grid
\* angle j, labelled <c's label>_<2-digit j> and titled "<its own label>: Angle <deg>".
C3_ExpandLabelsPairs ==
    Returned("expand") =>
        LET K == Len(mol0.confs)
            N == call.n
            off == IF call.include THEN K ELSE 0
        IN  /\ Len(result.confs) = off + K * N
            /\ \A c \in 1..off : result.confs[c] = mol0.confs[c]
            /\ \A c \in 1..K : \A j \in 0..(N - 1) :
                  LET nc == result.confs[off + (c - 1) * N + j + 1]
                  IN  /\ StampedAt(nc, j, N, mol0.confs[c].label \o <<"_">> \o Fmt02(j))
                      /\ nc.title = nc.label \o AngleWord \o Dec(nc.angleNum)

\* C4: generate, scan, expand and split leave the molecule they are given as it
\* was before the call.
C4_InputUnchanged ==
    call.op \in {"generate", "scan", "expand", "split"} => mol = mol0

\* the numbers written in a whitespace-separated tag value
TagNumbers(v) == LET toks == Split(v) IN [k \in 1..Len(toks) |-> ParseInt(toks[k])]

\* C5: after gen_starting_confs with num_conformers > 1 the TORSION_ATOMS_FRAGMENT of
\* the result holds 4 pairwise-distinct indices in 1..atom count, the k-th being the
\* new index of the input's k-th dihedral atom; TORSION_ATOMPROP lists the same four;
\* TORSION_ATOMS_ParentMol is the input's.
C5_FragmentTagTracksAtoms ==
    (Returned("generate") /\ call.n > 1) =>
        LET w == TagNumbers(result.tags[TAGNAME])
            d == TagNumbers(mol0.tags[TAGNAME])
        IN  /\ Len(w) = 4
            /\ \A k \in 1..4 : w[k] \in 1..Len(result.atoms)
            /\ \A j, k \in 1..4 : j # k => w[j] # w[k]
            /\ \A k \in 1..4 : result.atoms[w[k]].orig = d[k] - 1
            /\ result.tags["TORSION_ATOMPROP"] =
                   <<"c", "s", "1", ":", "0", ":", "1", ";">>
                   \o <<"1", "%">> \o Dec(w[1]) \o <<":", "1", "%">> \o Dec(w[2])
                   \o <<":", "1", "%">> \o Dec(w[3]) \o <<":", "1", "%">> \o Dec(w[4])
            /\ result.tags["TORSION_ATOMS_ParentMol"] = mol0.tags["TORSION_ATOMS_ParentMol"]

\* the fragment tag of m is set and holds exactly 4 numbers naming atoms of m
WellTagged(m) ==
    /\ m.tags[TAGNAME] # NoTag
    /\ Len(TagNumbers(m.tags[TAGNAME])) = 4
    /\ \A k \in 1..4 : TagNumbers(m.tags[TAGNAME])[k] \in 1..Len(m.atoms)

\* C6: gen_starting_confs returns a molecule only for a fragment tag of exactly 4
\* in-range indices; a missing tag and a malformed tag raise before the sampler runs
\* and nothing is returned.
C6_GenerateValidatesTag ==
    call.op = "generate" =>
        /\ outcome = "returned" => WellTagged(mol0)
        /\ ~WellTagged(mol0) => (~sampled /\ result = NoMol)
        /\ mol0.tags[TAGNAME] = NoTag => outcome = "ValueError:missing-tag"

\* the last two characters of a label read as a number
LabelIndex(lab) == ParseInt(SubSeq(lab, Len(lab) - 1, Len(lab)))

\* C7 as stated: conformer i of the result of gen_starting_confs is labelled and
\* titled <input title>_<TORSION_ATOMS_ParentMol tag>_<2-digit i>.
C7_LabelHoldsParentTag ==
    Returned("generate") =>
        \A c \in 1..Len(result.confs) :
            /\ result.confs[c].label =
                   mol0.title \o <<"_">> \o mol0.tags["TORSION_ATOMS_ParentMol"]
                       \o <<"_">> \o Fmt02(c - 1)
            /\ result.confs[c].title = result.confs[c].label

\* C7 amended: conformer i of the result of gen_starting_confs is labelled and titled
\* <input title>_<the whitespace-separated words of the TORSION_ATOMS_ParentMol tag
\* joined by "_">_<2-digit i>; the labels are pairwise distinct, and with
\* num_conformers = N > 1 the result has between 1 and N conformers.
C7_LabelHoldsJoinedParentTag ==
    Returned("generate") =>
        LET words == Split(mol0.tags["TORSION_ATOMS_ParentMol"])
            stem == mol0.title \o <<"_">> \o Join(<<"_">>, words) \o <<"_">>
        IN  /\ \A c \in 1..Len(result.confs) :
                  LET lab == result.confs[c].label
                  IN  /\ Len(lab) = Len(stem) + 2
                      /\ SubSeq(lab, 1, Len(stem)) = stem
                      /\ LabelIndex(lab) = c - 1
                      /\ result.confs[c].title = lab
            /\ \A b, c \in 1..Len(result.confs) :
                  b # c => result.confs[b].label # result.confs[c].label
            /\ call.n > 1 => Len(result.confs) \in 1..call.n

\* gen_starting_confs sampled at least two conformers of a molecule whose parent tag
\* holds two words
C7_Witness ==
    /\ Returned("generate")
    /\ call.n > 1
    /\ Len(result.confs) >= 2
    /\ Len(Split(mol0.tags["TORSION_ATOMS_ParentMol"])) = 2
    /\ \E k \in 1..Len(mol0.tags["TORSION_ATOMS_ParentMol"]) :
          mol0.tags["TORSION_ATOMS_ParentMol"][k] = " "

\* C8: gen_starting_confs with num_conformers <= 1 on a well-tagged molecule does not
\* run the sampler and returns a copy that differs from the input only in the
\* CONFORMER_LABEL and the title of its conformers.
C8_PassThroughOnlyLabels ==
    (Returned("generate") /\ call.n <= 1 /\ WellTagged(mol0)) =>
        /\ ~sampled
        /\ Len(result.confs) = Len(mol0.confs)
        /\ result.tags[TAGNAME] = mol0.tags[TAGNAME]
        /\ [result EXCEPT !.confs = [c \in 1..Len(result.confs) |->
                [result.confs[c] EXCEPT !.label = mol0.confs[c].label,
                                        !.title = mol0.confs[c].title]]] = mol0

\* C9: once gen_starting_confs has returned, no atom of its argument and no atom of
\* the returned molecule carries a position-in-dihedral marker.
C9_NoMarkerEscapes ==
    call.op = "generate" =>
        /\ \A j \in 1..Len(mol.atoms) : mol.atoms[j].dihidx = NoData
        /\ \A j \in 1..Len(result.atoms) : result.atoms[j].dihidx = NoData

\* C10: every generator of split_confs yields, in the source's conformer order, one
\* molecule per conformer with that single conformer and the source's tags, K in all
\* when exhausted, whatever the other generators of the same source have consumed.
C10_SplitYieldsEachConformer ==
    \A g \in 1..NumGens :
        LET y == gens[g].yielded
        IN  /\ Len(y) <= Len(mol0.confs)
            /\ gens[g].state = "done" => Len(y) = Len(mol0.confs)
            /\ \A p \in 1..Len(y) :
                  /\ Len(y[p].confs) = 1
                  /\ y[p].confs[1].label = mol0.confs[p].label
                  /\ y[p].confs[1].dih = mol0.confs[p].dih
                  /\ y[p].tags = mol0.tags

\* one generator is exhausted while another one over the same two-conformer source
\* has been consumed in part
C10_Witness ==
    /\ Len(mol0.confs) = 2
    /\ gens[1].state = "done"
    /\ Len(gens[1].yielded) = 2
    /\ gens[2].state = "running"
    /\ Len(gens[2].yielded) = 1

====
